---- MODULE Spec2Model ----
(***************************************************************************)
(* Model of the Clinical-RAG service (app/services/rag_service.py) and of  *)
(* the API routes in front of it (app/routes.py).                          *)
(*                                                                         *)
(* Texts are sequences of characters.  The embedding service, the          *)
(* generation service and the vector store are external: every call to     *)
(* them either succeeds or raises, as the environment chooses.             *)
(***************************************************************************)
EXTENDS Integers, Sequences, FiniteSets, TLC

VARIABLES settings, svc, genai_configured, store, last, ck, workers

vars == <<settings, svc, genai_configured, store, last, ck, workers>>

\* ------------------------------------------------------------------ bounds

\* Longest text and largest chunk size / overlap the chunker is tried on.
MaxTextLen == 4
MaxSize == 3
\* Length of the long document (more than one ingest_pdf batch).
LongLen == 11
\* Most records the store is let to hold where short documents are ingested.
MaxRecords == 3
\* Largest top_k a query is tried with.
MaxTopK == 2

\* ------------------------------------------------------- program constants

\* ingest_pdf: batch_size = 10
batch_size == 10

None == "None"

Min(a, b) == IF a < b THEN a ELSE b

\* ------------------------------------------------------------------- texts

Chars == {"a", "b", " "}
Whitespace == {" "}

\* Python's s[i:j] for 0 <= i and 0 <= j.
Slice(s, i, j) == SubSeq(s, i + 1, Min(j, Len(s)))

RECURSIVE lstrip(_)
lstrip(s) == IF s # <<>> /\ Head(s) \in Whitespace THEN lstrip(Tail(s)) ELSE s

RECURSIVE rstrip(_)
rstrip(s) ==
    IF s # <<>> /\ s[Len(s)] \in Whitespace
    THEN rstrip(SubSeq(s, 1, Len(s) - 1))
    ELSE s

\* str.strip()
strip(s) == rstrip(lstrip(s))

\* Python's range(start, stop, step) for step # 0, as the sequence it yields.
RECURSIVE PyRange(_, _, _)
PyRange(start, stop, step) ==
    IF (step > 0 /\ start < stop) \/ (step < 0 /\ start > stop)
    THEN <<start>> \o PyRange(start + step, stop, step)
    ELSE <<>>

\* ----------------------------------------------------------------- chunker

\* The window starts with the overlap left out of the step.
chunk_windows_no_overlap(text, chunk_size, overlap) ==
    PyRange(0, Len(text), chunk_size)

\* The window starts _chunk_text scans: range(0, len(text), chunk_size - overlap).
chunk_windows(text, chunk_size, overlap) ==
    PyRange(0, Len(text), chunk_size - overlap)

\* One pass of the loop body of _chunk_text over the window starts.
RECURSIVE chunk_loop(_, _, _)
chunk_loop(text, chunk_size, starts) ==
    IF starts = <<>> THEN <<>>
    ELSE LET chunk == Slice(text, Head(starts), Head(starts) + chunk_size)
         IN  (IF strip(chunk) # <<>> THEN <<strip(chunk)>> ELSE <<>>)
                 \o chunk_loop(text, chunk_size, Tail(starts))

\* _chunk_text: range() raises ValueError for a zero step.
chunk_text(text, chunk_size, overlap) ==
    IF chunk_size - overlap = 0
    THEN [raised |-> TRUE, exc |-> "ValueError", value |-> <<>>]
    ELSE [raised |-> FALSE, exc |-> None,
          value |-> chunk_loop(text, chunk_size,
                               chunk_windows(text, chunk_size, overlap))]

\* ------------------------------------------------------- external services

Handle == "handle"

RECURSIVE Count(_, _)
Count(s, c) ==
    IF s = <<>> THEN 0 ELSE (IF Head(s) = c THEN 1 ELSE 0) + Count(Tail(s), c)

\* The vector the embedding service answers with for a text.
embedding_of(text) == <<Count(text, "a"), Count(text, "b")>>

\* Squared Euclidean distance (metric_type L2).
Distance(q, v) == (q[1] - v[1]) * (q[1] - v[1]) + (q[2] - v[2]) * (q[2] - v[2])

\* The store's ranking: the `limit` nearest of the flushed records `ids`,
\* nearest first, equal distances by ascending id.
RECURSIVE nearest(_, _, _, _)
nearest(recs, ids, q, limit) ==
    IF limit <= 0 \/ ids = {} THEN <<>>
    ELSE LET best == CHOOSE i \in ids : \A j \in ids :
                        \/ Distance(q, recs[i].vector) < Distance(q, recs[j].vector)
                        \/ /\ Distance(q, recs[i].vector) = Distance(q, recs[j].vector)
                           /\ i <= j
         IN  <<[text_chunk |-> recs[best].text_chunk,
                distance |-> Distance(q, recs[best].vector)]>>
                 \o nearest(recs, ids \ {best}, q, limit - 1)

\* Collection.search(data=[q], limit=limit): raises when the environment
\* fails the call, without a connection, or on a collection not loaded.
store_search(st, q, limit, ok) ==
    IF ~ok \/ ~st.connected \/ st.collections = 0 \/ ~st.loaded
    THEN [raised |-> TRUE, value |-> <<>>]
    ELSE [raised |-> FALSE,
          value |-> nearest(st.records, 1..st.flushed, q, limit)]

\* Collection.insert([chunks, vectors]): one record per chunk, in order.
store_insert(st, chunks, vectors, ok) ==
    IF ~ok \/ ~st.connected \/ st.collections = 0 \/ Len(chunks) # Len(vectors)
    THEN [raised |-> TRUE, store |-> st]
    ELSE [raised |-> FALSE,
          store |-> [st EXCEPT !.records = @ \o
                        [k \in 1..Len(chunks) |->
                            [text_chunk |-> chunks[k], vector |-> vectors[k]]]]]

\* Collection.flush()
store_flush(st, ok) ==
    IF ~ok \/ ~st.connected \/ st.collections = 0
    THEN [raised |-> TRUE, store |-> st]
    ELSE [raised |-> FALSE, store |-> [st EXCEPT !.flushed = Len(st.records)]]

\* ------------------------------------------------------------- RAGService

\* is_healthy looking at the collection handle alone.
is_healthy_handle_only(sv) == sv.collection # None

\* is_healthy
is_healthy(sv) == sv.initialized /\ sv.collection # None

\* initialize(): `fail` names the external call the environment fails
\* ("none", "connect", "has", "load").
initialize(cfg, sv, gc, st, fail) ==
    IF sv.initialized
    THEN [raised |-> FALSE, svc |-> sv, genai |-> gc, store |-> st]
    ELSE IF ~cfg.gemini_api_key
    THEN [raised |-> TRUE, svc |-> sv, genai |-> gc, store |-> st]
    ELSE IF ~cfg.milvus_uri \/ ~cfg.milvus_token
    THEN [raised |-> TRUE, svc |-> sv, genai |-> TRUE, store |-> st]
    ELSE IF fail = "connect"
    THEN [raised |-> TRUE, svc |-> sv, genai |-> TRUE, store |-> st]
    ELSE LET s1 == [st EXCEPT !.connected = TRUE]
         IN  IF fail = "has"
             THEN [raised |-> TRUE, svc |-> sv, genai |-> TRUE, store |-> s1]
             ELSE IF s1.collections = 0
             THEN [raised |-> FALSE, svc |-> [sv EXCEPT !.initialized = TRUE],
                   genai |-> TRUE, store |-> s1]
             ELSE IF fail = "load"
             THEN [raised |-> TRUE, svc |-> [sv EXCEPT !.collection = Handle],
                   genai |-> TRUE, store |-> s1]
             ELSE [raised |-> FALSE,
                   svc |-> [initialized |-> TRUE, collection |-> Handle],
                   genai |-> TRUE, store |-> [s1 EXCEPT !.loaded = TRUE]]

\* Python's None and a value that is not None; falsy(x) is "not x" for an
\* optional list.
PyNone == [none |-> TRUE, value |-> <<>>]
Some(v) == [none |-> FALSE, value |-> v]
falsy(x) == x.none \/ x.value = <<>>

\* embed_query without its except clause: the error propagates.
embed_query_no_except(text, out) ==
    IF out = "error" THEN [raised |-> TRUE, ret |-> PyNone]
    ELSE IF out = "empty" THEN [raised |-> FALSE, ret |-> Some(<<>>)]
    ELSE [raised |-> FALSE, ret |-> Some(embedding_of(text))]

\* embed_query: out is the embedding call's outcome ("ok", "error", or
\* "empty" for a response carrying no vector).  The except clause turns an
\* error into None.
embed_query(text, out) ==
    IF out = "error" THEN [raised |-> FALSE, ret |-> PyNone]
    ELSE IF out = "empty" THEN [raised |-> FALSE, ret |-> Some(<<>>)]
    ELSE [raised |-> FALSE, ret |-> Some(embedding_of(text))]

\* embed_documents with the try/except inside the loop: an item whose call
\* raises is left out and the other vectors are returned.
embed_documents_skip_failed(texts, failAt) ==
    LET kept == IF failAt \in 1..Len(texts)
                THEN SubSeq(texts, 1, failAt - 1) \o SubSeq(texts, failAt + 1, Len(texts))
                ELSE texts
    IN  [raised |-> FALSE,
         ret |-> Some([k \in 1..Len(kept) |-> embedding_of(kept[k])])]

\* embed_documents: failAt is the first item whose embedding call raises
\* (0: none does).
embed_documents(texts, failAt) ==
    IF failAt \in 1..Len(texts)
    THEN [raised |-> FALSE, ret |-> PyNone]
    ELSE [raised |-> FALSE,
          ret |-> Some([k \in 1..Len(texts) |-> embedding_of(texts[k])])]

\* search asking the store for one hit more than top_k.
search_limit_off_by_one(sv, st, query_embedding, top_k, ok) ==
    IF sv.collection = None \/ query_embedding = <<>>
    THEN [raised |-> FALSE, value |-> <<>>, store_calls |-> 0]
    ELSE LET results == store_search(st, query_embedding, top_k + 1, ok)
         IN  IF results.raised
             THEN [raised |-> FALSE, value |-> <<>>, store_calls |-> 1]
             ELSE [raised |-> FALSE,
                   value |-> [k \in 1..Len(results.value) |->
                                 [text |-> results.value[k].text_chunk,
                                  score |-> results.value[k].distance]],
                   store_calls |-> 1]

\* search
search(sv, st, query_embedding, top_k, ok) ==
    IF sv.collection = None \/ query_embedding = <<>>
    THEN [raised |-> FALSE, value |-> <<>>, store_calls |-> 0]
    ELSE LET results == store_search(st, query_embedding, top_k, ok)
         IN  IF results.raised
             THEN [raised |-> FALSE, value |-> <<>>, store_calls |-> 1]
             ELSE [raised |-> FALSE,
                   value |-> [k \in 1..Len(results.value) |->
                                 [text |-> results.value[k].text_chunk,
                                  score |-> results.value[k].distance]],
                   store_calls |-> 1]

GeneratedText == "generated answer"

\* generate_answer without its except clause: the error propagates.
generate_answer_no_except(question, context_chunks, ok) ==
    [raised |-> ~ok,
     value |-> [kind |-> GeneratedText,
                context |-> [k \in 1..Len(context_chunks) |-> context_chunks[k].text]]]

\* generate_answer: the context block is the chunk texts in retrieval order.
generate_answer(question, context_chunks, ok) ==
    IF ok
    THEN [raised |-> FALSE,
          value |-> [kind |-> GeneratedText,
                     context |-> [k \in 1..Len(context_chunks) |-> context_chunks[k].text]]]
    ELSE [raised |-> FALSE,
          value |-> [kind |-> "Generation error: ", context |-> <<>>]]

NoAnswer == [kind |-> None, context |-> <<>>]
FailedAnswer == [kind |-> "Failed to process your question.", context |-> <<>>]
NoInfoAnswer ==
    [kind |-> "No relevant information found in the knowledge base.", context |-> <<>>]

\* query without the "if not chunks" return: generation runs on no chunks.
query_no_empty_check(sv, st, question, top_k, env) ==
    LET query_vector == embed_query(question, env.embed)
        chunks == search(sv, st, query_vector.ret.value, top_k, env.search)
        answer == generate_answer(question, chunks.value, env.generate)
    IN  IF falsy(query_vector.ret)
        THEN [raised |-> FALSE, answer |-> FailedAnswer, sources |-> <<>>,
              calls |-> <<"embed_query">>, store_calls |-> 0]
        ELSE [raised |-> answer.raised, answer |-> answer.value,
              sources |-> chunks.value,
              calls |-> <<"embed_query", "search", "generate_answer">>,
              store_calls |-> chunks.store_calls]

\* query: env gives the outcomes of the embedding, search and generation calls.
query(sv, st, question, top_k, env) ==
    LET query_vector == embed_query(question, env.embed)
    IN  IF query_vector.raised
        THEN [raised |-> TRUE, answer |-> NoAnswer, sources |-> <<>>,
              calls |-> <<"embed_query">>, store_calls |-> 0]
        ELSE IF falsy(query_vector.ret)
        THEN [raised |-> FALSE, answer |-> FailedAnswer, sources |-> <<>>,
              calls |-> <<"embed_query">>, store_calls |-> 0]
        ELSE LET chunks == search(sv, st, query_vector.ret.value, top_k, env.search)
             IN  IF chunks.raised
                 THEN [raised |-> TRUE, answer |-> NoAnswer, sources |-> <<>>,
                       calls |-> <<"embed_query", "search">>,
                       store_calls |-> chunks.store_calls]
                 ELSE IF chunks.value = <<>>
                 THEN [raised |-> FALSE, answer |-> NoInfoAnswer, sources |-> <<>>,
                       calls |-> <<"embed_query", "search">>,
                       store_calls |-> chunks.store_calls]
                 ELSE LET answer == generate_answer(question, chunks.value, env.generate)
                      IN  [raised |-> answer.raised,
                           answer |-> IF answer.raised THEN NoAnswer ELSE answer.value,
                           sources |-> chunks.value,
                           calls |-> <<"embed_query", "search", "generate_answer">>,
                           store_calls |-> chunks.store_calls]

\* ---------------------------------------------------------------- ingestion

\* Collection(name, schema) dropping a collection of that name before
\* creating it.
create_collection_recreate(st) ==
    [st EXCEPT !.collections = 1, !.creates = @ + 1, !.indexed = FALSE,
               !.loaded = FALSE, !.records = <<>>, !.flushed = 0]

\* collection = Collection(name=..., schema=schema): the store creates the
\* collection when the name is free and hands back the existing one
\* otherwise; `creates` counts the creation requests.
create_collection(st) ==
    [st EXCEPT !.collections = IF @ = 0 THEN 1 ELSE @, !.creates = @ + 1]

\* _ensure_collection_exists creating without asking has_collection first.
ensure_always_creates(sv, st, fail) ==
    IF ~st.connected \/ fail # "none"
    THEN [raised |-> TRUE, svc |-> sv, store |-> st]
    ELSE [raised |-> FALSE, svc |-> [sv EXCEPT !.collection = Handle],
          store |-> [st EXCEPT !.collections = @ + 1, !.creates = @ + 1,
                               !.indexed = TRUE, !.indexes = @ + 1,
                               !.loaded = TRUE]]

\* _ensure_collection_exists: `fail` names the store call the environment
\* fails ("none", "has", "create", "index", "load").  Every store call needs
\* the connection.
ensure_collection_exists(sv, st, fail) ==
    IF ~st.connected \/ fail = "has"
    THEN [raised |-> TRUE, svc |-> sv, store |-> st]
    ELSE IF st.collections > 0
    THEN IF fail = "load"
         THEN [raised |-> TRUE, svc |-> sv, store |-> st]
         ELSE [raised |-> FALSE, svc |-> [sv EXCEPT !.collection = Handle],
               store |-> [st EXCEPT !.loaded = TRUE]]
    ELSE IF fail = "create"
    THEN [raised |-> TRUE, svc |-> sv, store |-> st]
    ELSE LET s1 == create_collection(st)
             s2 == [s1 EXCEPT !.indexed = TRUE, !.indexes = @ + 1]
         IN  IF fail = "index"
             THEN [raised |-> TRUE, svc |-> sv, store |-> s1]
             ELSE IF fail = "load"
             THEN [raised |-> TRUE, svc |-> sv, store |-> s2]
             ELSE [raised |-> FALSE, svc |-> [sv EXCEPT !.collection = Handle],
                   store |-> [s2 EXCEPT !.loaded = TRUE]]

\* The item of a batch whose embedding call the environment fails.
FailAt(out, batch) ==
    IF out = "first" THEN 1 ELSE IF out = "last" THEN Len(batch) ELSE 0

\* ingest_text ensuring the collection before it looks at the chunk list.
ingest_text_ensure_first(cfg, sv, st, text, env) ==
    LET chunks == chunk_text(text, cfg.chunk_size, cfg.chunk_overlap)
        e == ensure_collection_exists(sv, st, env.ensure)
        embeddings == embed_documents(chunks.value, FailAt(env.embed[1], chunks.value))
        ins == store_insert(e.store, chunks.value, embeddings.ret.value, env.insert # 1)
        fl == store_flush(ins.store, env.flush)
    IN  IF chunks.raised
        THEN [raised |-> TRUE, value |-> 0, svc |-> sv, store |-> st,
              stages |-> <<"chunk">>]
        ELSE IF e.raised
        THEN [raised |-> TRUE, value |-> 0, svc |-> e.svc, store |-> e.store,
              stages |-> <<"chunk", "ensure">>]
        ELSE IF chunks.value = <<>>
        THEN [raised |-> FALSE, value |-> 0, svc |-> e.svc, store |-> e.store,
              stages |-> <<"chunk", "ensure">>]
        ELSE IF ~falsy(embeddings.ret) /\ Len(embeddings.ret.value) = Len(chunks.value)
        THEN IF ins.raised
             THEN [raised |-> TRUE, value |-> 0, svc |-> e.svc, store |-> ins.store,
                   stages |-> <<"chunk", "ensure", "embed", "insert">>]
             ELSE [raised |-> fl.raised,
                   value |-> IF fl.raised THEN 0 ELSE Len(chunks.value),
                   svc |-> e.svc, store |-> fl.store,
                   stages |-> <<"chunk", "ensure", "embed", "insert", "flush">>]
        ELSE [raised |-> FALSE, value |-> 0, svc |-> e.svc, store |-> e.store,
              stages |-> <<"chunk", "ensure", "embed">>]

\* ingest_text, from the chunk list on.  env: ensure (the store call failed in
\* _ensure_collection_exists), embed (per batch: "ok", "first", "last"),
\* insert (the batch whose insert raises, 0 for none), flush (succeeds).
ingest_text(cfg, sv, st, text, env) ==
    LET chunks == chunk_text(text, cfg.chunk_size, cfg.chunk_overlap)
        e == ensure_collection_exists(sv, st, env.ensure)
        embeddings == embed_documents(chunks.value, FailAt(env.embed[1], chunks.value))
        ins == store_insert(e.store, chunks.value, embeddings.ret.value, env.insert # 1)
        fl == store_flush(ins.store, env.flush)
    IN  IF chunks.raised
        THEN [raised |-> TRUE, value |-> 0, svc |-> sv, store |-> st,
              stages |-> <<"chunk">>]
        ELSE IF chunks.value = <<>>
        THEN [raised |-> FALSE, value |-> 0, svc |-> sv, store |-> st,
              stages |-> <<"chunk">>]
        ELSE IF e.raised
        THEN [raised |-> TRUE, value |-> 0, svc |-> e.svc, store |-> e.store,
              stages |-> <<"chunk", "ensure">>]
        ELSE IF embeddings.raised
        THEN [raised |-> TRUE, value |-> 0, svc |-> e.svc, store |-> e.store,
              stages |-> <<"chunk", "ensure", "embed">>]
        ELSE IF ~falsy(embeddings.ret) /\ Len(embeddings.ret.value) = Len(chunks.value)
        THEN IF ins.raised
             THEN [raised |-> TRUE, value |-> 0, svc |-> e.svc, store |-> ins.store,
                   stages |-> <<"chunk", "ensure", "embed", "insert">>]
             ELSE [raised |-> fl.raised,
                   value |-> IF fl.raised THEN 0 ELSE Len(chunks.value),
                   svc |-> e.svc, store |-> fl.store,
                   stages |-> <<"chunk", "ensure", "embed", "insert", "flush">>]
        ELSE [raised |-> FALSE, value |-> 0, svc |-> e.svc, store |-> e.store,
              stages |-> <<"chunk", "ensure", "embed">>]

\* The batch loop leaving at the first batch whose embedding fails.
RECURSIVE ingest_batches_abort(_, _, _, _, _)
ingest_batches_abort(st, chunks, starts, b, env) ==
    IF starts = <<>> \/ env.embed[b] # "ok"
    THEN [raised |-> FALSE, total_processed |-> 0, store |-> st,
          stages |-> IF starts = <<>> THEN <<>> ELSE <<"embed">>]
    ELSE LET batch_chunks == Slice(chunks, Head(starts), Head(starts) + batch_size)
             ins == store_insert(st, batch_chunks,
                                 embed_documents(batch_chunks, 0).ret.value,
                                 env.insert # b)
             rest == ingest_batches_abort(ins.store, chunks, Tail(starts), b + 1, env)
         IN  IF ins.raised
             THEN [raised |-> TRUE, total_processed |-> 0, store |-> ins.store,
                   stages |-> <<"embed", "insert">>]
             ELSE [raised |-> rest.raised,
                   total_processed |-> Len(batch_chunks) + rest.total_processed,
                   store |-> rest.store,
                   stages |-> <<"embed", "insert">> \o rest.stages]

\* The batch loop of ingest_pdf over the batch starts; b numbers the batch.
RECURSIVE ingest_batches(_, _, _, _, _)
ingest_batches(st, chunks, starts, b, env) ==
    IF starts = <<>>
    THEN [raised |-> FALSE, total_processed |-> 0, store |-> st, stages |-> <<>>]
    ELSE LET batch_chunks == Slice(chunks, Head(starts), Head(starts) + batch_size)
             embeddings == embed_documents(batch_chunks, FailAt(env.embed[b], batch_chunks))
             ins == store_insert(st, batch_chunks, embeddings.ret.value, env.insert # b)
             rest == ingest_batches(IF ~embeddings.raised /\ ~falsy(embeddings.ret)
                                       /\ Len(embeddings.ret.value) = Len(batch_chunks)
                                    THEN ins.store ELSE st,
                                    chunks, Tail(starts), b + 1, env)
         IN  IF embeddings.raised
             THEN [raised |-> TRUE, total_processed |-> 0, store |-> st,
                   stages |-> <<"embed">>]
             ELSE IF ~falsy(embeddings.ret) /\ Len(embeddings.ret.value) = Len(batch_chunks)
             THEN IF ins.raised
                  THEN [raised |-> TRUE, total_processed |-> 0, store |-> ins.store,
                        stages |-> <<"embed", "insert">>]
                  ELSE [raised |-> rest.raised,
                        total_processed |-> Len(batch_chunks) + rest.total_processed,
                        store |-> rest.store,
                        stages |-> <<"embed", "insert">> \o rest.stages]
             ELSE [raised |-> rest.raised, total_processed |-> rest.total_processed,
                   store |-> rest.store, stages |-> <<"embed">> \o rest.stages]

\* ingest_pdf: pdf.opens tells whether fitz can open the file, pdf.text is the
\* text of its pages.
ingest_pdf(cfg, sv, st, pdf, env) ==
    LET chunks == chunk_text(pdf.text, cfg.chunk_size, cfg.chunk_overlap)
        e == ensure_collection_exists(sv, st, env.ensure)
        loop == ingest_batches(e.store, chunks.value,
                               PyRange(0, Len(chunks.value), batch_size), 1, env)
        fl == store_flush(loop.store, env.flush)
    IN  IF ~pdf.opens
        THEN [raised |-> TRUE, value |-> 0, svc |-> sv, store |-> st, stages |-> <<>>]
        ELSE IF chunks.raised
        THEN [raised |-> TRUE, value |-> 0, svc |-> sv, store |-> st,
              stages |-> <<"chunk">>]
        ELSE IF chunks.value = <<>>
        THEN [raised |-> FALSE, value |-> 0, svc |-> sv, store |-> st,
              stages |-> <<"chunk">>]
        ELSE IF e.raised
        THEN [raised |-> TRUE, value |-> 0, svc |-> e.svc, store |-> e.store,
              stages |-> <<"chunk", "ensure">>]
        ELSE IF loop.raised
        THEN [raised |-> TRUE, value |-> 0, svc |-> e.svc, store |-> loop.store,
              stages |-> <<"chunk", "ensure">> \o loop.stages]
        ELSE [raised |-> fl.raised,
              value |-> IF fl.raised THEN 0 ELSE loop.total_processed,
              svc |-> e.svc, store |-> fl.store,
              stages |-> <<"chunk", "ensure">> \o loop.stages \o <<"flush">>]

\* ------------------------------------------------------------------ routes

\* GET /health: count_ok tells whether num_entities can be read.
health_check(sv, st, count_ok) ==
    [status |-> IF is_healthy(sv) THEN "healthy" ELSE "degraded",
     milvus_connected |-> sv.collection # None,
     gemini_configured |-> TRUE,
     collection_entities |->
        IF sv.collection # None /\ count_ok /\ st.connected /\ st.collections > 0
        THEN Some(st.flushed) ELSE PyNone]

\* POST /query without the is_healthy guard.
query_documents_no_guard(sv, st, request, env) ==
    LET r == query(sv, st, request.question, request.top_k, env)
    IN  IF r.raised
        THEN [status_code |-> 500, answer |-> NoAnswer, sources |-> <<>>,
              chunks_retrieved |-> 0]
        ELSE [status_code |-> 200, answer |-> r.answer, sources |-> r.sources,
              chunks_retrieved |-> Len(r.sources)]

\* POST /query
query_documents(sv, st, request, env) ==
    LET r == query(sv, st, request.question, request.top_k, env)
    IN  IF ~is_healthy(sv)
        THEN [status_code |-> 503, answer |-> NoAnswer, sources |-> <<>>,
              chunks_retrieved |-> 0]
        ELSE IF r.raised
        THEN [status_code |-> 500, answer |-> NoAnswer, sources |-> <<>>,
              chunks_retrieved |-> 0]
        ELSE [status_code |-> 200, answer |-> r.answer, sources |-> r.sources,
              chunks_retrieved |-> Len(r.sources)]

\* POST /ingest/text, given the outcome r of service.ingest_text; the request
\* schema wants a text of at least one character.
ingest_text_route(text, r) ==
    IF Len(text) < 1
    THEN [status_code |-> 422, success |-> FALSE, chunks_processed |-> 0]
    ELSE IF r.raised
    THEN [status_code |-> 500, success |-> FALSE, chunks_processed |-> 0]
    ELSE [status_code |-> 200, success |-> TRUE, chunks_processed |-> r.value]

\* POST /ingest/pdf, given the outcome r of service.ingest_pdf.
ingest_pdf_route(file, r) ==
    IF ~file.is_pdf_name
    THEN [status_code |-> 400, success |-> FALSE, chunks_processed |-> 0]
    ELSE IF r.raised
    THEN [status_code |-> 500, success |-> FALSE, chunks_processed |-> 0]
    ELSE [status_code |-> 200, success |-> TRUE, chunks_processed |-> r.value]

\* ------------------------------------------------------------------ inputs

TextsUpTo(n) == UNION {[1..k -> Chars] : k \in 0..n}

LongDoc == [k \in 1..LongLen |-> IF k = LongLen THEN "b" ELSE "a"]
ShortDocs == {<<" ">>, <<"a">>, <<"a", "b">>}
LongDocs == {<<" ">>, LongDoc}
Questions == {<<"a">>, <<"b">>}

\* Configurations: credentials present or not, chunk size and overlap.
Credentials ==
    [gemini_api_key : BOOLEAN, milvus_uri : BOOLEAN, milvus_token : BOOLEAN]
Configured(c) == c.gemini_api_key /\ c.milvus_uri /\ c.milvus_token
SettingsOf(c, chunk_size, overlap) ==
    [gemini_api_key |-> c.gemini_api_key, milvus_uri |-> c.milvus_uri,
     milvus_token |-> c.milvus_token, chunk_size |-> chunk_size,
     chunk_overlap |-> overlap]
AllPresent == [gemini_api_key |-> TRUE, milvus_uri |-> TRUE, milvus_token |-> TRUE]

EnsureFails == {"none", "has", "create", "index", "load"}
InitFails == {"none", "connect", "has", "load"}
EmbedOutcomes == {"ok", "first", "last"}
NumBatches(n) == (n + batch_size - 1) \div batch_size
\* The environments of an ingest over nb batches; once the collection cannot
\* be ensured the later outcomes play no part.
IngestEnvs(nb) ==
    {env \in [ensure : EnsureFails, embed : [1..nb -> EmbedOutcomes],
              insert : 0..nb, flush : BOOLEAN] :
        env.ensure # "none" =>
            /\ \A b \in 1..nb : env.embed[b] = "ok"
            /\ env.insert = 0
            /\ env.flush}
QueryEnvs == [embed : {"ok", "error", "empty"}, search : BOOLEAN, generate : BOOLEAN]
Files(docs) ==
    {[is_pdf_name |-> FALSE, opens |-> TRUE, text |-> <<>>],
     [is_pdf_name |-> TRUE, opens |-> FALSE, text |-> <<>>]}
        \cup {[is_pdf_name |-> TRUE, opens |-> TRUE, text |-> t] : t \in docs \cup {<<>>}}

NoStore ==
    [connected |-> FALSE, collections |-> 0, indexed |-> FALSE, loaded |-> FALSE,
     records |-> <<>>, flushed |-> 0, creates |-> 0, indexes |-> 0]
NoService == [initialized |-> FALSE, collection |-> None]
NoResult == [raised |-> FALSE, exc |-> None, value |-> <<>>]
IdleChunker ==
    [pc |-> "idle", text |-> <<>>, chunk_size |-> 1, overlap |-> 0, result |-> NoResult]

\* The handlers that run ingest_text concurrently, and a handler that has not
\* been entered.
Workers == {1, 2}
IdleWorker ==
    [pc |-> "idle", chunks |-> <<>>, absent |-> FALSE, embeddings |-> <<>>,
     inserted |-> FALSE, value |-> 0, fault |-> "none"]
IdleWorkers == [w \in Workers |-> IdleWorker]

\* ------------------------------------------------------------------ actions

\* RAGService.__init__ over one of the configurations.
Constructed(configs) ==
    /\ settings \in configs
    /\ svc = NoService
    /\ genai_configured = FALSE
    /\ store = NoStore
    /\ last = [op |-> "none"]
    /\ ck = IdleChunker
    /\ workers = IdleWorkers

\* init_rag_service at startup, or a later call of initialize().
Initialize ==
    \E fail \in InitFails :
      \E r \in {initialize(settings, svc, genai_configured, store, fail)} :
        /\ svc' = r.svc
        /\ genai_configured' = r.genai
        /\ store' = r.store
        /\ last' = [op |-> "initialize", raised |-> r.raised]
        /\ UNCHANGED <<settings, ck, workers>>

\* GET /health
HealthCheck ==
    \E count_ok \in BOOLEAN :
        /\ last.op # "none"
        /\ last' = [op |-> "health_check", response |-> health_check(svc, store, count_ok)]
        /\ UNCHANGED <<settings, svc, genai_configured, store, ck, workers>>

\* service.search called directly.
Search ==
    \E q \in {<<>>} \cup {embedding_of(t) : t \in Questions}, top_k \in 1..MaxTopK,
       ok \in BOOLEAN :
        /\ last' = [op |-> "search", query_embedding |-> q, top_k |-> top_k, ok |-> ok,
                    result |-> search(svc, store, q, top_k, ok)]
        /\ UNCHANGED <<settings, svc, genai_configured, store, ck, workers>>

\* service.query called directly.
Query ==
    \E question \in Questions, top_k \in 1..MaxTopK, env \in QueryEnvs :
        /\ last' = [op |-> "query", question |-> question, top_k |-> top_k, env |-> env,
                    result |-> query(svc, store, question, top_k, env)]
        /\ UNCHANGED <<settings, svc, genai_configured, store, ck, workers>>

\* POST /query
QueryRoute ==
    \E question \in Questions, top_k \in 1..MaxTopK, env \in QueryEnvs :
        /\ last.op # "none"
        /\ last' = [op |-> "query_documents",
                    response |-> query_documents(svc, store,
                                    [question |-> question, top_k |-> top_k], env)]
        /\ UNCHANGED <<settings, svc, genai_configured, store, ck, workers>>

\* service._ensure_collection_exists called directly.
EnsureCollection ==
    \E fail \in EnsureFails :
      \E r \in {ensure_collection_exists(svc, store, fail)} :
        /\ svc' = r.svc
        /\ store' = r.store
        /\ last' = [op |-> "ensure_collection_exists", raised |-> r.raised,
                    existed |-> store.collections > 0]
        /\ UNCHANGED <<settings, genai_configured, ck, workers>>

\* The chunks an ingest of `text` produces (none when chunking raises).
ChunksOf(text) == chunk_text(text, settings.chunk_size, settings.chunk_overlap).value

\* Which batches' embedding calls succeed under env.
EmbedOk(env, nb) == [b \in 1..nb |-> env.embed[b] = "ok"]

\* Whether the environment lets every store call of an ingest succeed.
StoreOk(env) == env.ensure = "none" /\ env.insert = 0 /\ env.flush

\* POST /ingest/text with service.ingest_text, over the documents `docs`, as
\* long as the store holds at most `cap` records afterwards.
IngestText(docs, cap) ==
    \E text \in docs :
      \E n \in {Len(ChunksOf(text))} :
        /\ last.op # "none"
        /\ Len(store.records) + n <= cap
        /\ \E env \in IngestEnvs(1) :
             \E r \in {ingest_text(settings, svc, store, text, env)} :
                /\ svc' = r.svc
                /\ store' = r.store
                /\ last' = [op |-> "ingest_text", nchunks |-> n,
                            chunks |-> ChunksOf(text), store_ok |-> StoreOk(env),
                            embed_ok |-> EmbedOk(env, 1),
                            raised |-> r.raised, value |-> r.value, stages |-> r.stages,
                            inserted |-> Len(r.store.records) - Len(store.records),
                            response |-> ingest_text_route(text, r)]
                /\ UNCHANGED <<settings, genai_configured, ck, workers>>

\* POST /ingest/pdf with service.ingest_pdf; a file not named *.pdf is
\* refused before the service is called.
IngestPdf(docs, cap) ==
    \E file \in Files(docs) :
      \E n \in {Len(ChunksOf(file.text))} :
        /\ last.op # "none"
        /\ Len(store.records) + n <= cap
        /\ \E env \in IngestEnvs(NumBatches(n)) :
             \E r \in {IF file.is_pdf_name
                       THEN ingest_pdf(settings, svc, store, file, env)
                       ELSE [raised |-> FALSE, value |-> 0, svc |-> svc, store |-> store,
                             stages |-> <<>>]} :
                /\ svc' = r.svc
                /\ store' = r.store
                /\ last' = [op |-> "ingest_pdf", nchunks |-> n,
                            chunks |-> ChunksOf(file.text), store_ok |-> StoreOk(env),
                            embed_ok |-> EmbedOk(env, NumBatches(n)),
                            raised |-> r.raised, value |-> r.value, stages |-> r.stages,
                            inserted |-> Len(r.store.records) - Len(store.records),
                            response |-> ingest_pdf_route(file, r)]
                /\ UNCHANGED <<settings, genai_configured, ck, workers>>

\* service.embed_documents called directly on the chunks of a document.
EmbedDocuments(docs) ==
    \E text \in docs :
      \E texts \in {ChunksOf(text)} :
        \E failAt \in 0..Len(texts) :
            /\ texts # <<>>
            /\ last' = [op |-> "embed_documents", texts |-> texts, failAt |-> failAt,
                        result |-> embed_documents(texts, failAt)]
            /\ UNCHANGED <<settings, svc, genai_configured, store, ck, workers>>

\* ------------------------------------------- specification: service lifecycle

Init ==
    Constructed({SettingsOf(c, 2, 1) : c \in Credentials})

Next ==
    \/ Initialize
    \/ HealthCheck
    \/ EnsureCollection
    \/ QueryRoute
    \/ IngestText(ShortDocs, MaxRecords)
    \/ IngestPdf(ShortDocs, MaxRecords)

Spec == Init /\ [][Next]_vars

\* ------------------------------------------------- specification: query path

InitQuery == Constructed({SettingsOf(AllPresent, 2, 1)})

NextQuery ==
    \/ Initialize
    \/ IngestText(ShortDocs, MaxRecords)
    \/ Search
    \/ Query
    \/ QueryRoute

SpecQuery == InitQuery /\ [][NextQuery]_vars

\* ------------------------------------------------ specification: ingest path

InitIngest ==
    Constructed({SettingsOf(AllPresent, 2, 1)})

NextIngest ==
    \/ Initialize
    \/ IngestText(LongDocs, LongLen + 1)
    \/ IngestPdf(LongDocs, LongLen + 1)
    \/ EmbedDocuments(ShortDocs)

SpecIngest == InitIngest /\ [][NextIngest]_vars

\* ---------------------------------------------------- specification: chunker

InitChunk ==
    /\ ck \in [pc : {"input"}, text : TextsUpTo(MaxTextLen), chunk_size : 1..MaxSize,
               overlap : 0..MaxSize, result : {NoResult}]
    /\ settings = SettingsOf(AllPresent, 1, 0)
    /\ svc = NoService
    /\ genai_configured = FALSE
    /\ store = NoStore
    /\ last = [op |-> "none"]
    /\ workers = IdleWorkers

\* _chunk_text applied to the input.
ChunkText ==
    /\ ck.pc = "input"
    /\ ck' = [ck EXCEPT !.pc = "done",
                        !.result = chunk_text(ck.text, ck.chunk_size, ck.overlap)]
    /\ UNCHANGED <<settings, svc, genai_configured, store, last, workers>>

NextChunk == ChunkText

SpecChunk == InitChunk /\ [][NextChunk]_vars

\* ------------------------------------- specification: concurrent ingestion
\*
\* Two ingest_text calls run at the same time against the same store (in
\* handlers of separate server processes, or in threads sharing the service;
\* either way self._collection receives the same handle).  Each call to the
\* store or to the embedding service is one step; the code holds no lock
\* between them.  A store call raises when the environment fails it
\* (fault "env"), without a connection (fault "unconnected"), or when the
\* store's state does not admit it (fault "state").

Fault(ok) == IF ~ok THEN "env" ELSE IF ~store.connected THEN "unconnected" ELSE "state"

Raise(w, ok) ==
    workers' = [workers EXCEPT ![w].pc = "raised", ![w].fault = Fault(ok)]

\* ingest_text entered: the text is chunked; no chunks, return 0.
IngestStart(w) ==
    \E text \in ShortDocs :
      \E chunks \in {ChunksOf(text)} :
        /\ last.op # "none"
        /\ workers[w].pc = "idle"
        /\ workers' = [workers EXCEPT ![w].pc = IF chunks = <<>> THEN "returned" ELSE "has",
                                      ![w].chunks = chunks]
        /\ UNCHANGED <<settings, svc, genai_configured, store, last, ck>>

\* _ensure_collection_exists: utility.has_collection(name)
HasCollection(w) ==
    \E ok \in BOOLEAN :
        /\ workers[w].pc = "has"
        /\ IF ok /\ store.connected
           THEN workers' = [workers EXCEPT
                               ![w].absent = (store.collections = 0),
                               ![w].pc = IF store.collections = 0 THEN "create" ELSE "load"]
           ELSE Raise(w, ok)
        /\ UNCHANGED <<settings, svc, genai_configured, store, last, ck>>

\* _ensure_collection_exists: Collection(name=..., schema=schema)
CreateCollection(w) ==
    \E ok \in BOOLEAN :
        /\ workers[w].pc = "create"
        /\ IF ok /\ store.connected
           THEN /\ store' = create_collection(store)
                /\ workers' = [workers EXCEPT ![w].pc = "index"]
           ELSE /\ Raise(w, ok)
                /\ UNCHANGED store
        /\ UNCHANGED <<settings, svc, genai_configured, last, ck>>

\* _ensure_collection_exists: collection.create_index(...)
CreateIndex(w) ==
    \E ok \in BOOLEAN :
        /\ workers[w].pc = "index"
        /\ IF ok /\ store.connected /\ store.collections > 0
           THEN /\ store' = [store EXCEPT !.indexed = TRUE, !.indexes = @ + 1]
                /\ workers' = [workers EXCEPT ![w].pc = "load"]
           ELSE /\ Raise(w, ok)
                /\ UNCHANGED store
        /\ UNCHANGED <<settings, svc, genai_configured, last, ck>>

\* _ensure_collection_exists: collection.load(); self._collection = collection
LoadCollection(w) ==
    \E ok \in BOOLEAN :
        /\ workers[w].pc = "load"
        /\ IF ok /\ store.connected /\ store.collections > 0
           THEN /\ store' = [store EXCEPT !.loaded = TRUE]
                /\ svc' = [svc EXCEPT !.collection = Handle]
                /\ workers' = [workers EXCEPT ![w].pc = "embed"]
           ELSE /\ Raise(w, ok)
                /\ UNCHANGED <<store, svc>>
        /\ UNCHANGED <<settings, genai_configured, last, ck>>

\* ingest_text: embeddings = self.embed_documents(chunks); return 0 unless
\* there is one embedding per chunk.
EmbedChunks(w) ==
    \E failAt \in 0..Len(workers[w].chunks) :
      \E r \in {embed_documents(workers[w].chunks, failAt)} :
        /\ workers[w].pc = "embed"
        /\ workers' = [workers EXCEPT ![w] =
                IF ~falsy(r.ret) /\ Len(r.ret.value) = Len(workers[w].chunks)
                THEN [@ EXCEPT !.pc = "insert", !.embeddings = r.ret.value]
                ELSE [@ EXCEPT !.pc = "returned", !.value = 0]]
        /\ UNCHANGED <<settings, svc, genai_configured, store, last, ck>>

\* ingest_text: collection.insert([chunks, embeddings])
InsertChunks(w) ==
    \E ok \in BOOLEAN :
      \E r \in {store_insert(store, workers[w].chunks, workers[w].embeddings, ok)} :
        /\ workers[w].pc = "insert"
        /\ store' = r.store
        /\ IF r.raised
           THEN Raise(w, ok)
           ELSE workers' = [workers EXCEPT ![w].pc = "flush", ![w].inserted = TRUE]
        /\ UNCHANGED <<settings, svc, genai_configured, last, ck>>

\* ingest_text: collection.flush(); return len(chunks)
FlushChunks(w) ==
    \E ok \in BOOLEAN :
      \E r \in {store_flush(store, ok)} :
        /\ workers[w].pc = "flush"
        /\ store' = r.store
        /\ IF r.raised
           THEN Raise(w, ok)
           ELSE workers' = [workers EXCEPT ![w].pc = "returned",
                                           ![w].value = Len(workers[w].chunks)]
        /\ UNCHANGED <<settings, svc, genai_configured, last, ck>>

\* One step of handler w.
WorkerStep(w) ==
    \/ IngestStart(w)
    \/ HasCollection(w)
    \/ CreateCollection(w)
    \/ CreateIndex(w)
    \/ LoadCollection(w)
    \/ EmbedChunks(w)
    \/ InsertChunks(w)
    \/ FlushChunks(w)

InitRace == Constructed({SettingsOf(AllPresent, 2, 1)})

NextRace ==
    \/ Initialize
    \/ \E w \in Workers : WorkerStep(w)

SpecRace == InitRace /\ [][NextRace]_vars

\* ------------------------------------------------------ claims: query path

\* Whether the store would answer a search with at least one hit.
StoreHasHits(ok) ==
    /\ ok /\ svc.collection # None
    /\ store.connected /\ store.collections > 0 /\ store.loaded
    /\ store.flushed > 0

\* C1: query never raises: whatever the outcomes of the embedding, search and
\* generation calls, it returns an answer string and a list of sources; when
\* embedding and search succeed with at least one hit and generation fails, the
\* answer carries the generation error and the sources are the retrieved chunks.
C1_QueryNeverRaises ==
    last.op = "query" =>
        /\ ~last.result.raised
        /\ last.result.answer.kind \in
              {FailedAnswer.kind, NoInfoAnswer.kind, GeneratedText, "Generation error: "}
        /\ Len(last.result.sources) \in 0..last.top_k
        /\ (last.env.embed = "ok" /\ StoreHasHits(last.env.search) /\ ~last.env.generate) =>
              /\ last.result.answer.kind = "Generation error: "
              /\ Len(last.result.sources) = Min(last.top_k, store.flushed)
              /\ \A k \in 1..Len(last.result.sources) :
                    \E i \in 1..store.flushed :
                        last.result.sources[k].text = store.records[i].text_chunk

C1_Witness ==
    /\ last.op = "query"
    /\ last.env.embed = "ok" /\ StoreHasHits(last.env.search) /\ ~last.env.generate
    /\ last.result.answer.kind = "Generation error: "
    /\ Len(last.result.sources) = 2

\* C2: when embedding the question fails (the call errors or yields no vector),
\* query returns the fixed fallback answer with no sources, without raising and
\* without calling search or generation.
C2_EmbedFailureFallback ==
    (last.op = "query" /\ last.env.embed # "ok") =>
        /\ ~last.result.raised
        /\ last.result.answer = FailedAnswer
        /\ last.result.sources = <<>>
        /\ last.result.calls = <<"embed_query">>
        /\ last.result.store_calls = 0

C2_Witness ==
    /\ last.op = "query" /\ last.env.embed = "error"
    /\ StoreHasHits(last.env.search) /\ last.env.generate
    /\ last.result.answer = FailedAnswer

\* C3: when the question is embedded and search returns nothing (no collection
\* handle, an unpopulated collection, or a failed store search), query returns
\* the fixed "no relevant information" answer with no sources, does not raise
\* and does not call the generation service.
C3_EmptySearchAnswer ==
    (last.op = "query" /\ last.env.embed = "ok" /\ ~StoreHasHits(last.env.search)) =>
        /\ ~last.result.raised
        /\ last.result.answer = NoInfoAnswer
        /\ last.result.sources = <<>>
        /\ last.result.calls = <<"embed_query", "search">>

C3_Witness ==
    /\ last.op = "query" /\ last.env.embed = "ok" /\ last.env.search /\ last.env.generate
    /\ svc.collection = Handle /\ store.loaded /\ store.creates = 1
    /\ store.records = <<>>
    /\ last.result.answer = NoInfoAnswer

\* C10: search returns at most top_k chunks, nearest first as the store ranks
\* them; it returns an empty sequence without raising when there is no
\* collection handle, the query vector is empty or the store search fails, and
\* in the first two cases the store is not contacted.
C10_SearchContract ==
    last.op = "search" =>
        LET q == last.query_embedding
            hits == last.result.value
            d(i) == Distance(q, store.records[i].vector)
        IN  /\ ~last.result.raised
            /\ Len(hits) <= last.top_k
            /\ (svc.collection = None \/ q = <<>>) =>
                  hits = <<>> /\ last.result.store_calls = 0
            /\ ~last.ok => hits = <<>>
            /\ (q # <<>> /\ StoreHasHits(last.ok)) =>
                  /\ Len(hits) = Min(last.top_k, store.flushed)
                  /\ last.result.store_calls = 1
            /\ \A k \in 1..Len(hits) :
                  /\ \E i \in 1..store.flushed :
                        hits[k] = [text |-> store.records[i].text_chunk, score |-> d(i)]
                  /\ k > 1 => hits[k - 1].score <= hits[k].score
                  /\ Cardinality({i \in 1..store.flushed : d(i) < hits[k].score}) < k

C10_Witness ==
    /\ last.op = "search" /\ last.top_k = 2
    /\ store.flushed > 2
    /\ Len(last.result.value) = 2
    /\ last.result.value[1].score < last.result.value[2].score
    /\ last.result.value[1].text # store.records[1].text_chunk

\* --------------------------------------------------------- claims: chunker

\* The positions (from 1) of window w (from 0) that hold a non-blank character.
Inked(text, w, size, step) ==
    {p \in (w * step + 1)..Min(w * step + size, Len(text)) : text[p] \notin Whitespace}

SetMin(S) == CHOOSE x \in S : \A y \in S : x <= y
SetMax(S) == CHOOSE x \in S : \A y \in S : x >= y

\* C7: for size > overlap >= 0, _chunk_text returns normally; its windows
\* start at 0, step, 2*step, ... below the text length (step = size - overlap),
\* cover every character position and leave no gap; the chunks are, in window
\* order, the trimmed contents of the windows that are not blank, each of
\* length 1..size.
C7_ChunkContract ==
    (ck.pc = "done" /\ ck.chunk_size > ck.overlap /\ ck.overlap >= 0) =>
        LET text == ck.text
            size == ck.chunk_size
            step == ck.chunk_size - ck.overlap
            n == Len(ck.text)
            starts == chunk_windows(ck.text, ck.chunk_size, ck.overlap)
            chunks == ck.result.value
            kept == {w \in 0..(Len(starts) - 1) : Inked(text, w, size, step) # {}}
        IN  /\ ~ck.result.raised
            /\ Len(starts) = (n + step - 1) \div step
            /\ \A k \in 1..Len(starts) : starts[k] = (k - 1) * step
            /\ \A p \in 0..(n - 1) :
                  \E k \in 1..Len(starts) : starts[k] <= p /\ p < starts[k] + size
            /\ \A k \in 1..(Len(starts) - 1) : starts[k + 1] <= starts[k] + size
            /\ Len(chunks) = Cardinality(kept)
            /\ \A j \in 1..Len(chunks) :
                  LET w == CHOOSE v \in kept : Cardinality({u \in kept : u < v}) = j - 1
                      ink == Inked(text, w, size, step)
                  IN  /\ Len(chunks[j]) \in 1..size
                      /\ chunks[j][1] \notin Whitespace
                      /\ chunks[j][Len(chunks[j])] \notin Whitespace
                      /\ chunks[j] = SubSeq(text, SetMin(ink), SetMax(ink))

C7_Witness ==
    /\ ck.pc = "done" /\ ck.chunk_size = 2 /\ ck.overlap = 1
    /\ ck.text = <<"a", " ", " ", "b">>
    /\ ck.result.value = << <<"a">>, <<"b">>, <<"b">> >>

\* C8 (as claimed): with chunk size <= overlap and a non-empty text, chunking
\* fails with an error instead of returning a chunk sequence.
C8_NonPositiveStepRejected ==
    (ck.pc = "done" /\ ck.chunk_size <= ck.overlap /\ ck.text # <<>>) =>
        ck.result.raised

\* ----------------------------------------------------- claims: ingest path

\* The size of batch b of an ingest over n chunks: ingest_text embeds all its
\* chunks as one batch, ingest_pdf in batches of batch_size.
BatchLen(op, n, b) ==
    IF op = "ingest_text" THEN n ELSE Min(batch_size, n - batch_size * (b - 1))

RECURSIVE SumEmbedded(_, _, _, _)
SumEmbedded(op, n, embed_ok, b) ==
    IF b > Len(embed_ok) THEN 0
    ELSE (IF embed_ok[b] THEN BatchLen(op, n, b) ELSE 0)
            + SumEmbedded(op, n, embed_ok, b + 1)

Occurrences(seq, x) == Cardinality({k \in 1..Len(seq) : seq[k] = x})

\* C4: in an ingest over a non-empty chunk sequence a batch whose embedding
\* fails is skipped and the other batches are still embedded; an embedding
\* failure never makes the call raise; the returned count is the sum of the
\* sizes of the batches embedded successfully and equals the number of records
\* the call inserted.  For ingest_pdf and for ingest_text.
C4_FailedBatchSkipped ==
    (last.op \in {"ingest_text", "ingest_pdf"} /\ last.nchunks > 0) =>
        /\ last.raised =>
              last.stages[Len(last.stages)] \in {"ensure", "insert", "flush"}
        /\ ~last.raised =>
              /\ Occurrences(last.stages, "embed") = Len(last.embed_ok)
              /\ last.value = SumEmbedded(last.op, last.nchunks, last.embed_ok, 1)
              /\ last.inserted = last.value
              /\ last.response.status_code = 200
              /\ last.response.chunks_processed = last.value

C4_Witness ==
    /\ last.op = "ingest_pdf" /\ ~last.raised
    /\ last.nchunks = LongLen
    /\ last.embed_ok = <<FALSE, TRUE>>
    /\ last.value = LongLen - batch_size
    /\ last.inserted = LongLen - batch_size

\* ------------------------------------------------------- claims: lifecycle

\* C5: the service reports healthy exactly when initialize has completed
\* (credentials configured, generation client configured, store connected) and
\* a collection handle is held, and that handle is then loaded; this does not
\* depend on the records stored, and a service whose initialization has not
\* succeeded is never reported healthy.
C5_HealthContract ==
    /\ svc.initialized =>
          Configured(settings) /\ genai_configured /\ store.connected
    /\ (svc.initialized /\ svc.collection # None) =>
          store.collections = 1 /\ store.loaded
    /\ last.op = "health_check" =>
          /\ last.response.status \in {"healthy", "degraded"}
          /\ last.response.status = "healthy"
                <=> (svc.initialized /\ svc.collection = Handle)
    /\ last.op = "query_documents" =>
          (last.response.status_code = 503
                <=> ~(svc.initialized /\ svc.collection = Handle))

\* Healthy on a collection this service created after initialization, with no
\* record in it.
C5_Witness ==
    /\ last.op = "health_check" /\ last.response.status = "healthy"
    /\ store.creates = 1
    /\ store.records = <<>>

\* C6 (as claimed): after an initialization that failed for a missing
\* credential health is degraded and every query and ingest request ends in an
\* error.
C6_NoOperationSucceeds ==
    ~Configured(settings) =>
        /\ last.op = "health_check" => last.response.status = "degraded"
        /\ last.op \in {"query_documents", "ingest_text", "ingest_pdf"} =>
              last.response.status_code # 200

\* C6 (amended): after an initialization that failed for a missing credential
\* the service is never initialized and nothing is stored; health is degraded,
\* every query request is refused (503), every ingest request whose text gives
\* at least one chunk ends in an error (500), and an ingest request that is
\* answered with success processed a text without chunks and reports 0.
C6_NoOperationStores ==
    ~Configured(settings) =>
        /\ ~svc.initialized /\ svc.collection = None
        /\ store.collections = 0 /\ store.records = <<>>
        /\ last.op = "health_check" => last.response.status = "degraded"
        /\ last.op = "query_documents" => last.response.status_code = 503
        /\ last.op \in {"ingest_text", "ingest_pdf"} =>
              /\ last.nchunks > 0 => last.response.status_code = 500
              /\ last.response.status_code = 200 =>
                    last.nchunks = 0 /\ last.response.chunks_processed = 0

C6_Witness ==
    /\ ~Configured(settings)
    /\ last.op = "ingest_text" /\ last.nchunks > 0
    /\ last.response.status_code = 500

\* C9: _ensure_collection_exists is idempotent: the store never holds more than
\* one collection of the name and schema and index are created at most once; a
\* call that finds the collection creates nothing, drops nothing and leaves the
\* records as they are; no call changes the records; a call that returns leaves
\* the one collection loaded and its handle stored in the service.
C9_EnsureIdempotent ==
    /\ [](store.collections <= 1 /\ store.creates <= 1 /\ store.indexes <= 1)
    /\ [][last'.op = "ensure_collection_exists" =>
            /\ store'.records = store.records /\ store'.flushed = store.flushed
            /\ store.collections > 0 =>
                  /\ store'.collections = store.collections
                  /\ store'.creates = store.creates
                  /\ store'.indexes = store.indexes
                  /\ store'.indexed = store.indexed
            /\ ~last'.raised =>
                  /\ store'.collections = 1 /\ store'.loaded
                  /\ svc'.collection = Handle
                  /\ (store.collections = 0 => store'.creates = 1 /\ store'.indexes = 1)
         ]_vars

\* A second call, on a collection that holds records.
C9_Witness ==
    /\ last.op = "ensure_collection_exists" /\ last.existed /\ ~last.raised
    /\ store.collections = 1 /\ store.creates = 1
    /\ store.records # <<>>
    /\ svc.collection = Handle

\* ------------------------------------------- claims: embedding and storing

\* The chunks of the batches from batch b on whose embedding succeeded, in
\* chunk order.
RECURSIVE EmbeddedChunks(_, _, _, _)
EmbeddedChunks(op, chunks, embed_ok, b) ==
    IF b > Len(embed_ok) THEN <<>>
    ELSE LET from == IF op = "ingest_text" THEN 0 ELSE batch_size * (b - 1)
             batch == Slice(chunks, from, from + BatchLen(op, Len(chunks), b))
         IN  (IF embed_ok[b] THEN batch ELSE <<>>)
                \o EmbeddedChunks(op, chunks, embed_ok, b + 1)

\* The records the last ingest call added to the store.
StoredByLast ==
    SubSeq(store.records, Len(store.records) - last.inserted + 1, Len(store.records))

\* C11: embed_documents is all-or-nothing: when the embedding call of any
\* item fails it returns None for the whole batch, otherwise exactly one
\* vector per input text, in input order.  Every stored record pairs a chunk
\* text with the embedding of that same chunk; an insert never fails for
\* unequal numbers of chunks and vectors (with the store calls succeeding on a
\* connected store the ingest returns); and the records a returning ingest
\* added are exactly the chunks of its successfully embedded batches, so no
\* chunk of a failed batch is stored.
C11_EmbedAllOrNothing ==
    /\ last.op = "embed_documents" =>
          /\ ~last.result.raised
          /\ IF last.failAt \in 1..Len(last.texts)
             THEN last.result.ret = PyNone
             ELSE /\ ~last.result.ret.none
                  /\ Len(last.result.ret.value) = Len(last.texts)
                  /\ \A k \in 1..Len(last.texts) :
                        last.result.ret.value[k] = embedding_of(last.texts[k])
    /\ \A i \in 1..Len(store.records) :
          store.records[i].vector = embedding_of(store.records[i].text_chunk)
    /\ (last.op \in {"ingest_text", "ingest_pdf"} /\ last.nchunks > 0) =>
          /\ (last.store_ok /\ store.connected) => ~last.raised
          /\ ~last.raised =>
                [k \in 1..last.inserted |-> StoredByLast[k].text_chunk]
                    = EmbeddedChunks(last.op, last.chunks, last.embed_ok, 1)

\* An ingest_pdf whose second batch failed to embed stored the first batch and
\* left the second batch's chunk out of the store.
C11_Witness ==
    /\ last.op = "ingest_pdf" /\ ~last.raised
    /\ last.nchunks = LongLen
    /\ last.embed_ok = <<TRUE, FALSE>>
    /\ last.inserted = batch_size
    /\ \A i \in 1..Len(store.records) : store.records[i].text_chunk # <<"b">>

\* ------------------------------------------------- claims: chunk overlap

Prefix(s, n) == SubSeq(s, 1, n)
Suffix(s, n) == SubSeq(s, Len(s) - n + 1, Len(s))

\* C12 (as claimed): for size > overlap >= 0 and every text, the last
\* `overlap` characters of each returned chunk are the first `overlap`
\* characters of the next one, except that the final chunk may be shorter
\* than the overlap.
C12_ConsecutiveOverlap ==
    (ck.pc = "done" /\ ck.chunk_size > ck.overlap /\ ck.overlap >= 0) =>
        LET chunks == ck.result.value
        IN  \A j \in 1..(Len(chunks) - 1) :
                \/ j + 1 = Len(chunks) /\ Len(chunks[j + 1]) < ck.overlap
                \/ /\ Len(chunks[j]) >= ck.overlap
                   /\ Len(chunks[j + 1]) >= ck.overlap
                   /\ Suffix(chunks[j], ck.overlap) = Prefix(chunks[j + 1], ck.overlap)

\* C12 (amended): for size > overlap >= 0, when trimming changed no window
\* (every window is returned as it was cut, none was blank), each consecutive
\* pair of returned chunks whose later chunk has at least `overlap` characters
\* overlaps by exactly `overlap` characters, and a later chunk shorter than
\* the overlap is a suffix of the chunk before it.
C12_UntrimmedOverlap ==
    (ck.pc = "done" /\ ck.chunk_size > ck.overlap /\ ck.overlap >= 0) =>
        LET chunks == ck.result.value
            starts == chunk_windows(ck.text, ck.chunk_size, ck.overlap)
            windows == [k \in 1..Len(starts) |->
                           Slice(ck.text, starts[k], starts[k] + ck.chunk_size)]
        IN  chunks = windows =>
                \A j \in 1..(Len(chunks) - 1) :
                    IF Len(chunks[j + 1]) >= ck.overlap
                    THEN /\ Len(chunks[j]) = ck.chunk_size
                         /\ Suffix(chunks[j], ck.overlap)
                                = Prefix(chunks[j + 1], ck.overlap)
                    ELSE chunks[j + 1] = Suffix(chunks[j], Len(chunks[j + 1]))

\* Four windows returned untrimmed, the last one shorter than the overlap.
C12_Witness ==
    /\ ck.pc = "done" /\ ck.chunk_size = 3 /\ ck.overlap = 2
    /\ ck.text = <<"a", "b", "a", "b">>
    /\ ck.result.value = << <<"a", "b", "a">>, <<"b", "a", "b">>, <<"a", "b">>, <<"b">> >>

\* ------------------------------------------- claims: concurrent ingestion

\* The number of records the handlers in S have inserted.
RECURSIVE InsertedBy(_)
InsertedBy(S) ==
    IF S = {} THEN 0
    ELSE LET w == CHOOSE x \in S : TRUE
         IN  (IF workers[w].inserted THEN Len(workers[w].chunks) ELSE 0)
                + InsertedBy(S \ {w})

\* The chunks of handler w stand in the store as consecutive records, each
\* with its own embedding, ending at or before position `upto`.
StoredBlock(w, upto) ==
    \E i \in 0..(upto - Len(workers[w].chunks)) :
        \A k \in 1..Len(workers[w].chunks) :
            /\ store.records[i + k].text_chunk = workers[w].chunks[k]
            /\ store.records[i + k].vector = embedding_of(workers[w].chunks[k])

Running == {"has", "create", "index", "load", "embed", "insert", "flush"}

BatchAt(stages, k) ==
    Cardinality({i \in 1..k : stages[i] = "embed"})

\* C14: an ingest call over a non-empty chunk sequence chunks first, ensures
\* the collection second and once, embeds only after that, inserts a batch
\* only right after that batch was embedded successfully, and flushes last
\* and at most once; a call that returns has flushed after its last insert,
\* so the store has flushed every record of the returned total.  Over an
\* empty chunk sequence the call returns 0 after chunking alone and leaves
\* the store and the service as they were.
C14_StageOrder ==
    /\ [](last.op \in {"ingest_text", "ingest_pdf"} =>
            LET stages == last.stages
                n == Len(last.stages)
            IN  /\ n > 0 => stages[1] = "chunk"
                /\ \A k \in 2..n : stages[k] # "chunk"
                /\ last.nchunks > 0 =>
                      /\ n > 1 => stages[2] = "ensure"
                      /\ \A k \in 1..n :
                            /\ stages[k] = "ensure" => k = 2
                            /\ stages[k] = "embed" => k > 2
                            /\ stages[k] = "insert" =>
                                  /\ stages[k - 1] = "embed"
                                  /\ last.embed_ok[BatchAt(stages, k)]
                            /\ stages[k] = "flush" => k = n
                      /\ (~last.raised /\ n > 0) =>
                            /\ Occurrences(stages, "embed") >= 1
                            /\ Occurrences(stages, "insert") > 0 => stages[n] = "flush"
                            /\ last.value = last.inserted
                            /\ last.value > 0 => store.flushed = Len(store.records)
                /\ (last.nchunks = 0 /\ n > 0) =>
                      /\ stages = <<"chunk">>
                      /\ ~last.raised /\ last.value = 0)
    /\ [][(last'.op \in {"ingest_text", "ingest_pdf"} /\ last'.nchunks = 0) =>
              (store' = store /\ svc' = svc)]_vars

\* An ingest_pdf of two batches, both embedded, inserted and then flushed;
\* its total is flushed.
C14_Witness ==
    /\ last.op = "ingest_pdf" /\ ~last.raised
    /\ last.stages = <<"chunk", "ensure", "embed", "insert", "embed", "insert", "flush">>
    /\ last.value = LongLen
    /\ store.flushed = Len(store.records)


====
